---- MODULE Spec2Model ----
(***************************************************************************)
(* Zone identification of the bollinger-bands package:                     *)
(* identify_entry_zones_with_conditions (strategies/zones.py) walks the    *)
(* daily series once and emits green (completed) and orange (incomplete)   *)
(* zones.  Dates are the positions 1..n of data.index.  One row of the     *)
(* input series is read per loop iteration; the rows are drawn when the    *)
(* iteration reads them.                                                   *)
(***************************************************************************)
EXTENDS Integers, Sequences, FiniteSets, TLC

\* ---- bounds of the model ----
NumDates == 4
MaxSignals == 2
MaxWarmup == 1
NumRerunDates == 2
NumPeriodicDates == 3
DaysPerPeriod == 2
MaxCandles == 3
MaxDailyDates == 8
MaxSmoothing == 4
MaxMonths == 3
NumFilterDates == 4
MaxLookahead == 2
MaxBars == 3

\* ---- values of the program ----
\* Python None, for a date that is not set (dates are 1..NumDates)
None == 0
\* the undefined (not-a-number) value of a float series
NaN == -1
\* dashboard defaults of the trend thresholds, in 1/1000 percent
flat_threshold_840 == 25
flat_threshold_420 == 0

\* ---- input values the rows are drawn from ----
CloseValues == {95, 100, 105}
MAValues == {100}
LongChangeValues == {0, 50}
ShortChangeValues == {-10, 10}
\* ma_condition_threshold in percent: the range [0,1] and values outside it
ThresholdValues == {-50, 0, 50, 100, 150}
\* Open and Close of the aggregated candles
OpenValues == {95, 100, 105}
PeriodCloseValues == {90, 95, 100}
\* daily Close of the series the daily detector smooths
DailyCloseValues == {90, 110}

VARIABLES
  max_reentry_signals,   \* argument: signals needed for a green zone
  reenter_after_orange,  \* argument: policy after an orange zone
  warmup,                \* number of leading dates whose long MA is undefined
  period,                \* argument: 'daily' or 'monthly'
  ma_condition_threshold, \* argument, in percent
  period_cond,           \* combined_ma_condition on the dates of the current calendar period
  n,                     \* len(data)
  i,                     \* number of loop iterations done (index of the next row)
  row,                   \* the row of the input series read by the last iteration
  crossing_dates,        \* crossing dates at or before the current date
  in_zone, zone_start, zone_exit_signal, zone_reentry_signals,
  processed_crossings,
  green_zones, orange_zones,
  zones,                 \* the returned list
  log,                   \* the lines printed by the state machine
  pc,                    \* "loop" while iterating, "done" after return
  run,                   \* 1 in the first call, 2 in the repeated call
  tape,                  \* rows of the first call, kept for the repeated call
  first_zones,           \* the list returned by the first call
  \* -- crossing detectors (indicators/crossing_detection.py) --
  detector,              \* "none", "period" or "daily": the detector that was called
  series,                \* its input: rows of Open, Close and the MA at the row's date
  smoothing_window,      \* argument of the daily detector
  pos,                   \* rows of clean_data its loop has visited
  crossing_signal,       \* its result: 0 or 1 for each row of series
  dpc,                   \* "idle", "loop" or "done"
  \* -- BollingerBandsAnalyzer (bollinger_bands.py) --
  constructed,           \* an analyzer object exists
  ticker, start_date, end_date, monthly_data,
  raised,                \* the exception the last call raised, or "none"
  \* -- re-entry signals (indicators/signals.py) --
  data,                  \* the daily rows: OHLC and the long MA and bands at the row's date
  enabled_signals,       \* argument: the enabled patterns
  bb_distance_threshold, \* argument, in percent
  any_reentry_signal,    \* OR of the enabled pattern series
  reentry_signals,       \* the result
  spc,                   \* "idle", "patterns" or "done"
  \* -- the trend filter of the dashboard (examples/app.py, update_chart) --
  daily_lookahead,       \* dashboard input, in days
  combined_ma_condition, \* the trend condition on each daily date
  price_crossing,        \* the detector's result on each displayed date
  valid_crossings,       \* the crossings the filter has accepted
  fpos,                  \* crossing dates the filter loop has visited
  fpc                    \* "idle", "loop" or "done"

vars == <<max_reentry_signals, reenter_after_orange, warmup, period,
          ma_condition_threshold, period_cond, n, i, row,
          crossing_dates, in_zone, zone_start, zone_exit_signal,
          zone_reentry_signals, processed_crossings, green_zones,
          orange_zones, zones, log, pc, run, tape, first_zones,
          detector, series, smoothing_window, pos, crossing_signal, dpc,
          constructed, ticker, start_date, end_date, monthly_data, raised,
          data, enabled_signals, bb_distance_threshold, any_reentry_signal,
          reentry_signals, spc, daily_lookahead, combined_ma_condition,
          price_crossing, valid_crossings, fpos, fpc>>

zonevars == <<max_reentry_signals, reenter_after_orange, warmup, period,
              ma_condition_threshold, period_cond, n, i, row,
              crossing_dates, in_zone, zone_start, zone_exit_signal,
              zone_reentry_signals, processed_crossings, green_zones,
              orange_zones, zones, log, pc, run, tape, first_zones>>

detvars == <<detector, series, smoothing_window, pos, crossing_signal, dpc>>

anavars == <<constructed, ticker, start_date, end_date, monthly_data, raised>>

sigvars == <<data, enabled_signals, bb_distance_threshold, any_reentry_signal,
             reentry_signals, spc>>

filtvars == <<daily_lookahead, combined_ma_condition, price_crossing,
              valid_crossings, fpos, fpc>>

\* no detector has been called
DetectorIdle ==
  /\ detector = "none"
  /\ series = <<>>
  /\ smoothing_window = 5
  /\ pos = 0
  /\ crossing_signal = <<>>
  /\ dpc = "idle"

\* no analyzer has been constructed
AnalyzerIdle ==
  /\ constructed = FALSE
  /\ ticker = ""
  /\ start_date = ""
  /\ end_date = ""
  /\ monthly_data = <<>>
  /\ raised = "none"

\* detect_reentry_signals has not been called
SignalsIdle ==
  /\ data = <<>>
  /\ enabled_signals = {}
  /\ bb_distance_threshold = 10
  /\ any_reentry_signal = <<>>
  /\ reentry_signals = <<>>
  /\ spc = "idle"

\* the dashboard has filtered nothing
FilterIdle ==
  /\ daily_lookahead = 10
  /\ combined_ma_condition = <<>>
  /\ price_crossing = <<>>
  /\ valid_crossings = <<>>
  /\ fpos = 0
  /\ fpc = "idle"

\* ---- the input series ----

\* rolling(window).mean(): undefined on the leading warm-up dates
MaAt(d, w) == IF d <= w THEN {NaN} ELSE MAValues

\* sma.pct_change() * 100: undefined where the MA or its predecessor is
LongChangeAt(d, w) == IF w > 0 /\ d <= w + 1 THEN {NaN} ELSE LongChangeValues

\* the rows the series can hold at date d
Rows(d, w) ==
  [Close : CloseValues, ma : MaAt(d, w), ma_long_change : LongChangeAt(d, w),
   ma_short_change : ShortChangeValues, reentry : BOOLEAN, price_crossing : {0, 1}]

NoRow ==
  [Close |-> 100, ma |-> NaN, ma_long_change |-> NaN, ma_short_change |-> 10,
   reentry |-> FALSE, price_crossing |-> 0]

\* float comparison a < b: false when either side is NaN
FloatLess(a, b) == a # NaN /\ b # NaN /\ a < b

\* variant: written as not (Close >= MA), true on an undefined MA
IsBelow_NotAbove(r) == ~(r.Close # NaN /\ r.ma # NaN /\ r.Close >= r.ma)

\* is_below = data['Close'] < ma_values
IsBelow(r) == FloatLess(r.Close, r.ma)

\* combined_ma_condition = flat_long & decreasing_short
CombinedMaCondition(r) ==
  /\ FloatLess(r.ma_long_change, flat_threshold_840)
  /\ FloatLess(r.ma_short_change, flat_threshold_420)

\* ---- helpers of the loop body ----

\* the calendar period (month) of a date, DaysPerPeriod trading days each
PeriodOf(d) == (d - 1) \div DaysPerPeriod

\* mask of check_ma_conditions_for_period: the dates of data in the
\* calendar period of date d
DatesOfPeriod(d, len) == {e \in 1..len : PeriodOf(e) = PeriodOf(d)}

\* position of date d among the dates of its period
OffsetInPeriod(d) == ((d - 1) % DaysPerPeriod) + 1

CountTrue(v) == Cardinality({j \in 1..Len(v) : v[j]})

\* variant: the share must exceed the threshold
CheckMaConditionsForPeriod_Strict(v, threshold) ==
  IF Len(v) = 0 THEN FALSE
  ELSE CountTrue(v) * 100 > threshold * Len(v)

\* check_ma_conditions_for_period: v is ma_condition[mask]
CheckMaConditionsForPeriod(v, threshold) ==
  IF Len(v) = 0 THEN FALSE
  ELSE CountTrue(v) * 100 >= threshold * Len(v)

\* variant: the gate reads the current date only, in every mode
ConditionsMet_CurrentDate(r, v, per, threshold) == CombinedMaCondition(r)

\* conditions_met of one iteration (lines 45-63)
ConditionsMet(r, v, per, threshold) ==
  IF per \in {"monthly", "quarterly"} THEN CheckMaConditionsForPeriod(v, threshold)
  ELSE CombinedMaCondition(r)

Min(S) == CHOOSE x \in S : \A y \in S : x <= y

Last(s) == s[Len(s)]

\* variant: the threshold test with > for >=
GreenCompletes_Strict(signals, max) == Len(signals) > max

\* if len(zone_reentry_signals) >= max_reentry_signals
GreenCompletes(signals, max) == Len(signals) >= max

\* variant: the date is inserted at the front
AppendSignal_Front(signals, current_date) == <<current_date>> \o signals

\* zone_reentry_signals.append(current_date)
AppendSignal(signals, current_date) == Append(signals, current_date)

\* variant: the price test of the orange close is left out
OrangeCloses_NoPriceTest(inz, below) == inz

\* if in_zone and not is_below.iloc[i]
OrangeCloses(inz, below) == inz /\ ~below

\* variant: the date before the last
LastDate_Previous(len) == len - 1

\* data.index[-1]
LastDate(len) == len

\* variant: the latest pending crossing is taken
CurrentCrossing_Latest(cds, current_date, processed) ==
  LET cand == {c \in cds : c <= current_date /\ c \notin processed}
  IN IF cand = {} THEN None ELSE CHOOSE x \in cand : \A y \in cand : x >= y

\* variant: a crossing of the current date is not yet seen
CurrentCrossing_Strict(cds, current_date, processed) ==
  LET cand == {c \in cds : c < current_date /\ c \notin processed}
  IN IF cand = {} THEN None ELSE Min(cand)

\* first cross_date of the ascending crossing_dates list with
\* cross_date <= current_date and cross_date not in processed_crossings
CurrentCrossing(cds, current_date, processed) ==
  LET cand == {c \in cds : c <= current_date /\ c \notin processed}
  IN IF cand = {} THEN None ELSE Min(cand)

\* variant: the orange zone ends two dates before the recovery date
OrangeEnd_TwoBack(idx, current_date) == IF idx > 0 THEN current_date - 2 ELSE current_date

\* variant: the orange zone ends at the recovery date itself
OrangeEnd_Current(idx, current_date) == current_date

\* 'end': data.index[i-1] if i > 0 else current_date  (idx is the 0-based i)
OrangeEnd(idx, current_date) == IF idx > 0 THEN current_date - 1 ELSE current_date

\* variant: the exit signal is released under either policy
AfterOrange_AlwaysReleased(processed, exit_signal, reenter) == processed \ {exit_signal}

\* variant: the exit signal is never released
AfterOrange_KeepConsumed(processed, exit_signal, reenter) == processed

\* reenter_after_orange: keep the exit signal consumed, or release it
AfterOrange(processed, exit_signal, reenter) ==
  IF reenter THEN processed ELSE processed \ {exit_signal}

Zone(exit_signal, start, signals, end, completed) ==
  [exit_signal |-> exit_signal, start |-> start, reentry_signals |-> signals,
   end |-> end, completed |-> completed]

\* one printed line
Line(ev, at, exit_signal, count) ==
  [ev |-> ev, at |-> at, exit_signal |-> exit_signal, count |-> count]

\* variant: the concatenation is returned without the sort
SortByStart_Skipped(s) == s

\* variant: a zone whose start is already in the list is dropped
RECURSIVE InsertByStart_Unique(_, _)
InsertByStart_Unique(z, s) ==
  IF s = <<>> THEN <<z>>
  ELSE IF Head(s).start = z.start THEN s
  ELSE IF Head(s).start < z.start THEN <<Head(s)>> \o InsertByStart_Unique(z, Tail(s))
  ELSE <<z>> \o s

\* zones.sort(key=lambda z: z['start']): stable, ascending
RECURSIVE InsertByStart(_, _)
InsertByStart(z, s) ==
  IF s = <<>> THEN <<z>>
  ELSE IF Head(s).start <= z.start THEN <<Head(s)>> \o InsertByStart(z, Tail(s))
  ELSE <<z>> \o s

RECURSIVE SortByStart(_)
SortByStart(s) ==
  IF s = <<>> THEN <<>>
  ELSE InsertByStart(Last(s), SortByStart(SubSeq(s, 1, Len(s) - 1)))

\* ---- the state machine ----

\* lines 24-40 of a call
Locals ==
  /\ i = 0
  /\ row = NoRow
  /\ crossing_dates = {}
  /\ in_zone = FALSE
  /\ zone_start = None
  /\ zone_exit_signal = None
  /\ zone_reentry_signals = <<>>
  /\ processed_crossings = {}
  /\ green_zones = <<>>
  /\ orange_zones = <<>>
  /\ zones = <<>>
  /\ log = <<>>
  /\ pc = "loop"

Init ==
  /\ max_reentry_signals \in 1..MaxSignals
  /\ reenter_after_orange \in BOOLEAN
  /\ warmup \in 0..MaxWarmup
  /\ period = "daily"
  /\ ma_condition_threshold = 50
  /\ period_cond = <<>>
  /\ n \in 0..NumDates
  /\ Locals
  /\ run = 1
  /\ tape = <<>>
  /\ first_zones = <<>>
  /\ DetectorIdle
  /\ AnalyzerIdle
  /\ SignalsIdle
  /\ FilterIdle

\* one iteration of the loop over the dates (lines 42-128) on row r
Iterate(r) ==
  LET current_date == i + 1
      cds == IF r.price_crossing = 1 THEN crossing_dates \cup {current_date}
             ELSE crossing_dates
      conditions_met == ConditionsMet(r, period_cond', period, ma_condition_threshold)
      current_crossing == CurrentCrossing(cds, current_date, processed_crossings)
      \* start new zone from exit signal (lines 73-79)
      enter == current_crossing # None /\ IsBelow(r) /\ conditions_met /\ ~in_zone
      in1 == in_zone \/ enter
      start1 == IF enter THEN current_crossing ELSE zone_start
      exit1 == IF enter THEN current_crossing ELSE zone_exit_signal
      sig1 == IF enter THEN <<>> ELSE zone_reentry_signals
      proc1 == IF enter THEN processed_crossings \cup {current_crossing}
               ELSE processed_crossings
      log1 == IF enter THEN Append(log, Line("STARTED", current_date, current_crossing, 0))
              ELSE log
      \* collect re-entry signals (lines 82-99)
      collect == in1 /\ r.reentry
      sig2 == IF collect THEN AppendSignal(sig1, current_date) ELSE sig1
      log2 == IF collect THEN Append(log1, Line("REENTRY", current_date, exit1, Len(sig2)))
              ELSE log1
      green == collect /\ GreenCompletes(sig2, max_reentry_signals)
      green3 == IF green
                THEN Append(green_zones, Zone(exit1, start1, sig2, current_date, TRUE))
                ELSE green_zones
      log3 == IF green THEN Append(log2, Line("GREEN", current_date, exit1, Len(sig2)))
              ELSE log2
      in3 == in1 /\ ~green
      start3 == IF green THEN None ELSE start1
      exit3 == IF green THEN None ELSE exit1
      sig3 == IF green THEN <<>> ELSE sig2
      \* zone ends: price crossed back above MA (lines 102-128)
      orange == OrangeCloses(in3, IsBelow(r))
      oend == OrangeEnd(i, current_date)
      orange4 == IF orange
                 THEN Append(orange_zones, Zone(exit3, start3, sig3, oend, FALSE))
                 ELSE orange_zones
      proc4 == IF orange THEN AfterOrange(proc1, exit3, reenter_after_orange)
               ELSE proc1
      log4 == IF orange
              THEN log3 \o << Line("ORANGE", oend, exit3, Len(sig3)),
                              Line(IF reenter_after_orange THEN "BACK_IN_MARKET"
                                   ELSE "STAY_OUT", current_date, exit3, Len(sig3)) >>
              ELSE log3
  IN /\ i' = i + 1
     /\ row' = r
     /\ crossing_dates' = cds
     /\ in_zone' = (in3 /\ ~orange)
     /\ zone_start' = IF orange THEN None ELSE start3
     /\ zone_exit_signal' = IF orange THEN None ELSE exit3
     /\ zone_reentry_signals' = IF orange THEN <<>> ELSE sig3
     /\ processed_crossings' = proc4
     /\ green_zones' = green3
     /\ orange_zones' = orange4
     /\ log' = log4
     /\ UNCHANGED <<max_reentry_signals, reenter_after_orange, warmup, period,
                    ma_condition_threshold, n, zones, pc>>

\* a loop iteration of a single call
Step ==
  /\ pc = "loop" /\ i < n
  /\ UNCHANGED <<run, tape, first_zones, period_cond, detvars, anavars, sigvars, filtvars>>
  /\ \E r \in Rows(i + 1, warmup) : Iterate(r)

\* the open zone at the end, the concatenation and the sort (lines 130-175)
Return ==
  /\ pc = "loop" /\ i = n
  /\ LET open_green == in_zone /\ GreenCompletes(zone_reentry_signals, max_reentry_signals)
         open_orange == in_zone /\ ~open_green
         z(c) == Zone(zone_exit_signal, zone_start, zone_reentry_signals, LastDate(n), c)
         g == IF open_green THEN Append(green_zones, z(TRUE)) ELSE green_zones
         o == IF open_orange THEN Append(orange_zones, z(FALSE)) ELSE orange_zones
     IN /\ green_zones' = g
        /\ orange_zones' = o
        /\ zones' = SortByStart(g \o o)
        /\ log' = IF open_green
                  THEN Append(log, Line("GREEN_OPEN_AT_END", n, zone_exit_signal,
                                        Len(zone_reentry_signals)))
                  ELSE IF open_orange
                  THEN Append(log, Line("ORANGE_OPEN_AT_END", n, zone_exit_signal,
                                        Len(zone_reentry_signals)))
                  ELSE log
  /\ pc' = "done"
  /\ UNCHANGED <<max_reentry_signals, reenter_after_orange, warmup, period,
                 ma_condition_threshold, period_cond, n, i, row,
                 crossing_dates, in_zone, zone_start, zone_exit_signal,
                 zone_reentry_signals, processed_crossings, run, tape, first_zones,
                 detvars, anavars, sigvars, filtvars>>

Next == Step \/ Return

Spec == Init /\ [][Next]_vars

\* ---- a call repeated on the same inputs ----

\* variant: the set of consumed crossings outlives the call
NewProcessedCrossings_Kept(previous) == previous

\* processed_crossings = set() at the start of a call (line 40)
NewProcessedCrossings(previous) == {}

InitRerun ==
  /\ max_reentry_signals \in 1..MaxSignals
  /\ reenter_after_orange \in BOOLEAN
  /\ warmup \in 0..MaxWarmup
  /\ period = "daily"
  /\ ma_condition_threshold = 50
  /\ period_cond = <<>>
  /\ n \in 0..NumRerunDates
  /\ Locals
  /\ run = 1
  /\ tape = <<>>
  /\ first_zones = <<>>
  /\ DetectorIdle
  /\ AnalyzerIdle
  /\ SignalsIdle
  /\ FilterIdle

\* the rows of the repeated call: one row for each outcome of the
\* comparisons Iterate makes on a row
RerunRows(d, w) == {r \in Rows(d, w) : r.Close # 100 /\ r.ma_long_change # 50}

\* a loop iteration of the first call; the row it read is kept
StepFirst ==
  /\ run = 1 /\ pc = "loop" /\ i < n
  /\ UNCHANGED <<run, first_zones, period_cond, detvars, anavars, sigvars, filtvars>>
  /\ \E r \in RerunRows(i + 1, warmup) : Iterate(r) /\ tape' = Append(tape, r)

\* the second call on the same arguments: its locals start afresh (lines 24-40)
CallAgain ==
  /\ run = 1 /\ pc = "done"
  /\ run' = 2
  /\ first_zones' = zones
  /\ i' = 0
  /\ row' = NoRow
  /\ crossing_dates' = {}
  /\ in_zone' = FALSE
  /\ zone_start' = None
  /\ zone_exit_signal' = None
  /\ zone_reentry_signals' = <<>>
  /\ processed_crossings' = NewProcessedCrossings(processed_crossings)
  /\ green_zones' = <<>>
  /\ orange_zones' = <<>>
  /\ zones' = <<>>
  /\ log' = <<>>
  /\ pc' = "loop"
  /\ UNCHANGED <<max_reentry_signals, reenter_after_orange, warmup, period,
                 ma_condition_threshold, period_cond, n, tape, detvars, anavars, sigvars, filtvars>>

\* a loop iteration of the second call, on the row the first call read
StepSecond ==
  /\ run = 2 /\ pc = "loop" /\ i < n
  /\ UNCHANGED <<run, tape, first_zones, period_cond, detvars, anavars, sigvars, filtvars>>
  /\ Iterate(tape[i + 1])

NextRerun == StepFirst \/ Return \/ CallAgain \/ StepSecond

SpecRerun == InitRerun /\ [][NextRerun]_vars

\* ---- a call in monthly mode ----

InitPeriodic ==
  /\ max_reentry_signals \in 1..MaxSignals
  /\ reenter_after_orange \in BOOLEAN
  /\ warmup \in 0..MaxWarmup
  /\ period = "monthly"
  /\ ma_condition_threshold \in ThresholdValues
  /\ period_cond = <<>>
  /\ n \in 0..NumPeriodicDates
  /\ Locals
  /\ run = 1
  /\ tape = <<>>
  /\ first_zones = <<>>
  /\ DetectorIdle
  /\ AnalyzerIdle
  /\ SignalsIdle
  /\ FilterIdle

\* the values combined_ma_condition can take on the dates of the period
\* that begins at date d
PeriodConds(d, len, w) ==
  LET m == Cardinality(DatesOfPeriod(d, len))
  IN {v \in [1..m -> BOOLEAN] :
        \A j \in 1..m : \E r \in Rows(d + j - 1, w) : CombinedMaCondition(r) = v[j]}

\* a loop iteration in monthly mode: combined_ma_condition of a calendar
\* period is drawn when the loop enters the period, because the gate of
\* every date of the period reads all of it
StepPeriodic ==
  /\ pc = "loop" /\ i < n /\ period = "monthly"
  /\ UNCHANGED <<run, tape, first_zones, detvars, anavars, sigvars, filtvars>>
  /\ \E v \in (IF OffsetInPeriod(i + 1) = 1 THEN PeriodConds(i + 1, n, warmup)
                ELSE {period_cond}) :
       /\ period_cond' = v
       /\ \E r \in RerunRows(i + 1, warmup) :
            /\ CombinedMaCondition(r) = v[OffsetInPeriod(i + 1)]
            /\ Iterate(r)

NextPeriodic == StepPeriodic \/ Return

SpecPeriodic == InitPeriodic /\ [][NextPeriodic]_vars

\* ---- properties of the returned zones ----

ZoneIndex == 1..Len(zones)

StrictlyIncreasing(s) == \A a, b \in 1..Len(s) : a < b => s[a] < s[b]

\* C1: any two returned zones A, B with A.start < B.start satisfy
\* A.end < B.start (zones never overlap in [start, end]).
C1_ZonesDisjoint ==
  pc = "done" =>
    \A a, b \in ZoneIndex :
      zones[a].start < zones[b].start => zones[a].end < zones[b].start

\* C2: with max_reentry_signals >= 1 every returned zone is either completed
\* with at least max_reentry_signals signals or not completed with fewer;
\* never both, never neither.
C2_Classification ==
  \A k \in ZoneIndex :
    LET z == zones[k]
        isGreen == z.completed /\ Len(z.reentry_signals) >= max_reentry_signals
        isOrange == ~z.completed /\ Len(z.reentry_signals) < max_reentry_signals
    IN isGreen # isOrange

C2_Witness ==
  /\ pc = "done"
  /\ \E k \in ZoneIndex : zones[k].completed
  /\ \E k \in ZoneIndex : ~zones[k].completed /\ Len(zones[k].reentry_signals) = 1

\* C3: an open zone is closed green on the very date its re-entry count
\* reaches max_reentry_signals: no zone stays open with the count reached,
\* and a green zone ends at its last re-entry signal and holds exactly
\* max_reentry_signals signals.
C3_GreenAtNthSignal ==
  /\ in_zone => Len(zone_reentry_signals) < max_reentry_signals
  /\ \A k \in 1..Len(green_zones) :
       LET z == green_zones[k]
       IN /\ Len(z.reentry_signals) = max_reentry_signals
          /\ z.end = Last(z.reentry_signals)

C3_Witness ==
  /\ max_reentry_signals = 2
  /\ \E k \in 1..Len(green_zones) :
       /\ Len(green_zones[k].reentry_signals) = 2
       /\ green_zones[k].start < green_zones[k].reentry_signals[1]

\* C4: with reenter_after_orange = False, after a zone closed orange on
\* price recovery, the next date with price below the MA and the trend
\* condition true starts a zone whose start and exit_signal are the exit
\* signal of that orange zone.
C4_ReuseExitSignal ==
  [][ ( /\ pc = "loop" /\ i' = i + 1
        /\ log # <<>> /\ Last(log).ev = "STAY_OUT"
        /\ IsBelow(row') /\ CombinedMaCondition(row') )
      => LET e == Last(log).exit_signal
         IN /\ Len(log') > Len(log)
            /\ log'[Len(log) + 1] = Line("STARTED", i', e, 0)
            /\ \/ in_zone' /\ zone_start' = e /\ zone_exit_signal' = e
               \/ /\ ~in_zone'
                  /\ Len(green_zones') = Len(green_zones) + 1
                  /\ Last(green_zones').start = e
                  /\ Last(green_zones').exit_signal = e ]_vars

\* the second dip reuses the only crossing there is
C4_Witness ==
  /\ ~reenter_after_orange
  /\ Cardinality(crossing_dates) = 1
  /\ \E k \in 1..Len(log) - 1 :
       /\ log[k].ev = "STAY_OUT"
       /\ log[k + 1].ev = "STARTED"
       /\ log[k + 1].exit_signal = log[k].exit_signal
       /\ log[k + 1].at > log[k].at

\* C5: with reenter_after_orange = True, a zone started after an orange
\* zone closed has as exit_signal a crossing dated after that orange
\* zone's end.
C5_NewCrossingAfterOrange ==
  reenter_after_orange =>
    \A k, m \in 1..Len(log) :
      (k < m /\ log[k].ev = "ORANGE" /\ log[m].ev = "STARTED")
        => log[m].exit_signal > log[k].at

\* C6: a zone closed orange by price recovering at index i ends at the
\* date of index i-1, where Close < MA held, and Close < MA does not hold
\* at the date after it.
C6_OrangeEndsAtLastBelow ==
  [][ (pc' = "loop" /\ Len(orange_zones') > Len(orange_zones))
      => /\ i >= 1
         /\ Last(orange_zones').end = i
         /\ IsBelow(row)
         /\ ~IsBelow(row') ]_vars

C6_Witness ==
  /\ pc = "loop"
  /\ orange_zones # <<>>
  /\ Last(orange_zones).end = i - 1
  /\ Last(orange_zones).start < Last(orange_zones).end
  /\ ~IsBelow(row)

\* C7: the returned zones are ordered by start date, ascending.
C7_SortedByStart ==
  \A k \in ZoneIndex : k < Len(zones) => zones[k].start <= zones[k + 1].start

\* the sort had work to do: a green zone starts after an orange one
C7_Witness ==
  /\ pc = "done"
  /\ \E g \in 1..Len(green_zones) : \E o \in 1..Len(orange_zones) :
       green_zones[g].start > orange_zones[o].start

\* C8: the re-entry signals of every zone are strictly increasing in date,
\* and while a zone is open its list changes only by appending the
\* current date.
C8_SignalsGrow ==
  [][ /\ StrictlyIncreasing(zone_reentry_signals')
      /\ \A k \in 1..Len(green_zones') :
           StrictlyIncreasing(green_zones'[k].reentry_signals)
      /\ \A k \in 1..Len(orange_zones') :
           StrictlyIncreasing(orange_zones'[k].reentry_signals)
      /\ (in_zone /\ in_zone')
         => \/ zone_reentry_signals' = zone_reentry_signals
            \/ zone_reentry_signals' = Append(zone_reentry_signals, i')
      /\ (in_zone /\ ~in_zone' /\ pc' = "loop" /\ Len(green_zones') > Len(green_zones))
         => Last(green_zones').reentry_signals = Append(zone_reentry_signals, i')
      /\ (in_zone /\ ~in_zone' /\ pc' = "loop" /\ Len(orange_zones') > Len(orange_zones))
         => \/ Last(orange_zones').reentry_signals = zone_reentry_signals
            \/ Last(orange_zones').reentry_signals = Append(zone_reentry_signals, i') ]_vars

C8_Witness ==
  \E k \in 1..Len(green_zones) :
    /\ Len(green_zones[k].reentry_signals) = 2
    /\ green_zones[k].reentry_signals[1] + 1 < green_zones[k].reentry_signals[2]

C10_UndefinedMaNoEntry ==
  [][ (i' = i + 1 /\ row'.ma = NaN)
      => /\ ~IsBelow(row')
         /\ ~CombinedMaCondition(row')
         /\ ~in_zone'
         /\ \A k \in Len(log) + 1..Len(log') : log'[k].ev # "STARTED" ]_vars

\* an undefined-MA date that has a pending crossing and a falling short MA
C10_Witness ==
  /\ i >= 1 /\ pc = "loop"
  /\ row.ma = NaN
  /\ row.Close = 95
  /\ row.ma_short_change = -10
  /\ crossing_dates # {}
  /\ ~in_zone

\* C12: an invalid configuration (here ma_condition_threshold outside
\* [0,1]) is rejected before any zone is emitted: the call does not return
\* a zone list.
C12_InvalidConfigRejected ==
  (ma_condition_threshold < 0 \/ ma_condition_threshold > 100)
    => (pc # "done" /\ green_zones = <<>> /\ orange_zones = <<>>)

\* ---- the transitions of one date ----

\* the iteration of date i' has opened a zone
Entered == Len(log') > Len(log) /\ log'[Len(log) + 1].ev = "STARTED"

\* the lines the iteration has printed
NewLines == {log'[k] : k \in Len(log) + 1..Len(log')}

Recorded == \E l \in NewLines : l.ev = "REENTRY"
ClosedGreen == Len(green_zones') > Len(green_zones)
ClosedOrange == Len(orange_zones') > Len(orange_zones)
IsIteration == pc = "loop" /\ i' = i + 1

\* crossing events at or before date i' that are not consumed when the
\* iteration begins
Pending == {c \in crossing_dates' : c <= i' /\ c \notin processed_crossings}

\* C14 as stated: the exit signal an entry uses is the latest crossing
\* event at or before the date that is not yet consumed.
C14_LatestPending ==
  [][ (IsIteration /\ Entered)
      => \A c \in Pending : c <= log'[Len(log) + 1].exit_signal ]_vars

\* C14 amended: the exit signal an entry uses (and marks consumed) is the
\* earliest crossing event at or before the date that is not yet consumed.
C14_EarliestPending ==
  [][ (IsIteration /\ Entered)
      => LET e == log'[Len(log) + 1].exit_signal
         IN /\ e \in Pending
            /\ \A c \in Pending : e <= c
            /\ e \in processed_crossings' ]_vars

\* an entry that had two pending crossings to choose from
C14_Witness ==
  /\ log # <<>>
  /\ Last(log).ev = "STARTED"
  /\ \E c \in crossing_dates :
       /\ c > Last(log).exit_signal
       /\ c <= Last(log).at
       /\ c \notin processed_crossings

\* C15: an entry fires at a date exactly when no zone is open, an
\* unconsumed crossing at or before the date exists, Close < MA and the
\* trend condition holds; the zone then starts at that crossing's date,
\* which is also its exit_signal, and holds no earlier re-entry signal.
C15_EntryExactly ==
  [][ IsIteration
      => /\ Entered <=> ( /\ ~in_zone
                          /\ Pending # {}
                          /\ IsBelow(row')
                          /\ CombinedMaCondition(row') )
         /\ Entered =>
              LET e == log'[Len(log) + 1].exit_signal
              IN /\ e \in Pending
                 /\ \/ /\ in_zone'
                       /\ zone_start' = e /\ zone_exit_signal' = e
                       /\ zone_reentry_signals' \in {<<>>, <<i'>>}
                    \/ /\ ~in_zone' /\ ClosedGreen
                       /\ Last(green_zones').start = e
                       /\ Last(green_zones').exit_signal = e
                       /\ Last(green_zones').reentry_signals = <<i'>> ]_vars

\* a zone opened after the date of its exit signal
C15_Witness ==
  /\ in_zone
  /\ zone_reentry_signals = <<>>
  /\ zone_start = zone_exit_signal
  /\ zone_start < i
  /\ Last(log).ev = "STARTED" /\ Last(log).at = i

\* C16 as stated: on one date at most one of entry, re-entry
\* accumulation / green close, and orange close fires.
C16_OneTransitionPerDate ==
  [][ IsIteration
      => /\ ~(Entered /\ (Recorded \/ ClosedGreen \/ ClosedOrange))
         /\ ~((Recorded \/ ClosedGreen) /\ ClosedOrange) ]_vars

\* C16 amended: on one date at most one zone is closed, and a date that
\* opens a zone does not close a zone orange; the same date may open a
\* zone, record a re-entry signal and close the zone green.
C16_OneClosePerDate ==
  [][ IsIteration
      => /\ ~(ClosedGreen /\ ClosedOrange)
         /\ Len(green_zones') + Len(orange_zones')
              <= Len(green_zones) + Len(orange_zones) + 1
         /\ ~(Entered /\ ClosedOrange) ]_vars

\* a date that opened a zone and closed it green
C16_Witness ==
  /\ Len(log) >= 3
  /\ log[Len(log) - 2].ev = "STARTED"
  /\ log[Len(log) - 1].ev = "REENTRY"
  /\ Last(log).ev = "GREEN"
  /\ log[Len(log) - 2].at = Last(log).at

\* C17: when, inside an open zone, the re-entry signal of a date brings
\* the count to max_reentry_signals while Close < MA does not hold at that
\* date, the zone is closed green with end = that date and no orange zone
\* is emitted.
C17_GreenBeforeOrange ==
  [][ ( /\ IsIteration /\ in_zone
        /\ row'.reentry
        /\ Len(zone_reentry_signals) + 1 = max_reentry_signals
        /\ ~IsBelow(row') )
      => /\ ClosedGreen
         /\ Last(green_zones') =
              Zone(zone_exit_signal, zone_start,
                   Append(zone_reentry_signals, i'), i', TRUE)
         /\ orange_zones' = orange_zones
         /\ ~in_zone' ]_vars

C17_Witness ==
  /\ pc = "loop"
  /\ green_zones # <<>>
  /\ Last(green_zones).end = i
  /\ Last(log).ev = "GREEN" /\ Last(log).at = i
  /\ row.reentry
  /\ ~IsBelow(row)

\* C18: a zone still open after the last date yields exactly one further
\* zone, with end = the last date, completed exactly when its re-entry
\* count meets max_reentry_signals; without an open zone nothing is added.
C18_OpenZoneAtEnd ==
  [][ (pc = "loop" /\ pc' = "done")
      => LET z == Zone(zone_exit_signal, zone_start, zone_reentry_signals, n,
                       Len(zone_reentry_signals) >= max_reentry_signals)
             before == Len(green_zones) + Len(orange_zones)
         IN /\ Len(zones') = before + (IF in_zone THEN 1 ELSE 0)
            /\ in_zone => /\ Cardinality({k \in 1..Len(zones') : zones'[k] = z}) >= 1
                          /\ IF z.completed
                             THEN green_zones' = Append(green_zones, z)
                                  /\ orange_zones' = orange_zones
                             ELSE orange_zones' = Append(orange_zones, z)
                                  /\ green_zones' = green_zones
            /\ ~in_zone => green_zones' = green_zones /\ orange_zones' = orange_zones ]_vars

\* the series ended inside a zone that holds a re-entry signal
C18_Witness ==
  /\ pc = "done"
  /\ in_zone
  /\ Len(zone_reentry_signals) = 1
  /\ orange_zones # <<>>
  /\ Last(orange_zones).end = n
  /\ Last(orange_zones).reentry_signals = zone_reentry_signals

\* ---- the crossing detectors (indicators/crossing_detection.py) ----

\* the zone identifier is not running
ZoneIdle ==
  /\ max_reentry_signals = 1
  /\ reenter_after_orange = FALSE
  /\ warmup = 0
  /\ period = "daily"
  /\ ma_condition_threshold = 50
  /\ period_cond = <<>>
  /\ n = 0
  /\ Locals
  /\ run = 1
  /\ tape = <<>>
  /\ first_zones = <<>>

SeqsUpTo(S, m) == UNION {[1..l -> S] : l \in 0..m}

\* the MA is undefined on a leading stretch of the series only
NaNPrefix(s) == \A a, b \in 1..Len(s) : (a < b /\ s[b].ma = NaN) => s[a].ma = NaN

\* float comparison a >= b: false when either side is NaN
FloatGreaterEq(a, b) == a # NaN /\ b # NaN /\ a >= b

\* valid_mask: the rows whose values are all defined
Valid(r) == r.Open # NaN /\ r.Close # NaN /\ r.ma # NaN

\* index of clean_data: the positions of the valid rows, ascending
CleanIndex(s) ==
  LET keep(q) == Valid(s[q])
  IN SelectSeq([q \in 1..Len(s) |-> q], keep)

\* pd.Series(0, index=data.index)
ZeroSignal(s) == [q \in 1..Len(s) |-> 0]

\* variant: the open must be strictly above the MA
PeriodCrosses_Strict(open, close, ma) == open > ma /\ FloatLess(close, ma)

\* if period_open >= period_ma and period_close < period_ma
PeriodCrosses(open, close, ma) == FloatGreaterEq(open, ma) /\ FloatLess(close, ma)

\* the aggregated candles, with the MA looked up at the candle's date
Candles == [Open : OpenValues, Close : PeriodCloseValues, ma : {NaN} \cup MAValues]

InitPeriod ==
  /\ ZoneIdle
  /\ AnalyzerIdle
  /\ SignalsIdle
  /\ FilterIdle
  /\ detector = "period"
  /\ series \in {s \in SeqsUpTo(Candles, MaxCandles) : NaNPrefix(s)}
  /\ smoothing_window = 5
  /\ pos = 0
  /\ crossing_signal = <<>>
  /\ dpc = "idle"

\* detect_price_crossing_down_period up to its loop (lines 63-71)
PeriodBegin ==
  /\ detector = "period" /\ dpc = "idle"
  /\ crossing_signal' = ZeroSignal(series)
  /\ dpc' = IF Len(CleanIndex(series)) < 2 THEN "done" ELSE "loop"
  /\ UNCHANGED <<detector, series, smoothing_window, pos, zonevars, anavars, sigvars, filtvars>>

\* one iteration of its loop over clean_data (lines 73-83)
PeriodStep ==
  /\ detector = "period" /\ dpc = "loop"
  /\ pos < Len(CleanIndex(series))
  /\ LET q == CleanIndex(series)[pos + 1]
         c == series[q]
     IN crossing_signal' = IF PeriodCrosses(c.Open, c.Close, c.ma)
                           THEN [crossing_signal EXCEPT ![q] = 1]
                           ELSE crossing_signal
  /\ pos' = pos + 1
  /\ UNCHANGED <<detector, series, smoothing_window, dpc, zonevars, anavars, sigvars, filtvars>>

\* return crossing_signal (line 85)
PeriodReturn ==
  /\ detector = "period" /\ dpc = "loop"
  /\ pos = Len(CleanIndex(series))
  /\ dpc' = "done"
  /\ UNCHANGED <<detector, series, smoothing_window, pos, crossing_signal,
                 zonevars, anavars, sigvars, filtvars>>

NextPeriod == PeriodBegin \/ PeriodStep \/ PeriodReturn

SpecPeriod == InitPeriod /\ [][NextPeriod]_vars

\* C11 as stated: for every series of aggregated candles, a candle is
\* flagged exactly when its Open >= MA at the period date and its
\* Close < that MA.
C11_FlagsEveryCrossing ==
  (detector = "period" /\ dpc = "done") =>
    \A q \in 1..Len(series) :
      crossing_signal[q] = 1
        <=> (FloatGreaterEq(series[q].Open, series[q].ma)
             /\ FloatLess(series[q].Close, series[q].ma))

\* the candles of the series whose MA is defined
DefinedCandles == {q \in 1..Len(series) : series[q].ma # NaN}

\* C11 amended: when at least two candles of the series have a defined
\* MA, a candle is flagged exactly when its Open >= MA and its Close < MA;
\* with fewer than two such candles no candle is flagged.
C11_FlagsCrossingsOfTwoOrMore ==
  (detector = "period" /\ dpc = "done") =>
    \A q \in 1..Len(series) :
      crossing_signal[q] = 1
        <=> ( /\ Cardinality(DefinedCandles) >= 2
              /\ series[q].ma # NaN
              /\ series[q].Open >= series[q].ma
              /\ series[q].Close < series[q].ma )

\* Open=105, Close=95 against MA=100 flagged once; Open=95, Close=90 not
C11_Witness ==
  /\ detector = "period" /\ dpc = "done"
  /\ \E a, b \in 1..Len(series) :
       /\ series[a] = [Open |-> 105, Close |-> 95, ma |-> 100]
       /\ series[b] = [Open |-> 95, Close |-> 90, ma |-> 100]
       /\ crossing_signal[a] = 1
       /\ crossing_signal[b] = 0
       /\ Cardinality({q \in 1..Len(series) : crossing_signal[q] = 1}) = 1

\* ---- detect_price_crossing_down_daily ----

\* the daily rows, with the MA aligned on the same dates
DailyRows == [Close : DailyCloseValues, ma : {NaN} \cup MAValues]

\* valid_mask of the daily detector: Close and MA both defined
DailyValid(r) == r.Close # NaN /\ r.ma # NaN

\* clean_data and clean_ma: the valid rows, in date order
CleanRows(s) == SelectSeq(s, DailyValid)

\* the position in the series of each row of clean_data
DailyCleanIndex(s) ==
  LET keep(q) == DailyValid(s[q])
  IN SelectSeq([q \in 1..Len(s) |-> q], keep)

Max(a, b) == IF a >= b THEN a ELSE b

\* rolling(window=w, min_periods=1): the rows of the trailing window at j
Window(j, w) == Max(1, j - w + 1)..j

RECURSIVE SumClose(_, _)
SumClose(c, S) ==
  IF S = {} THEN 0
  ELSE LET q == CHOOSE x \in S : TRUE
       IN c[q].Close + SumClose(c, S \ {q})

\* is_below = smoothed_price < clean_ma, where the smoothed price is the
\* mean of the window: sum / count < ma, compared as sum < ma * count
SmoothedBelow(c, j, w) ==
  SumClose(c, Window(j, w)) < c[j].ma * Cardinality(Window(j, w))

\* is_above = smoothed_price >= clean_ma
SmoothedAbove(c, j, w) ==
  SumClose(c, Window(j, w)) >= c[j].ma * Cardinality(Window(j, w))

\* transitions = is_below & is_above.shift(1).fillna(False)
Transition(c, j, w) ==
  /\ SmoothedBelow(c, j, w)
  /\ j > 1 /\ SmoothedAbove(c, j - 1, w)

\* variant: the look-back starts one row later
LookbackStart_Short(j, w) == Max(1, j - w + 1)

\* lookback_start = max(0, i - smoothing_window)
LookbackStart(j, w) == Max(1, j - w)

\* was_above.sum() over is_above.iloc[lookback_start:i]
WasAbove(c, j, w) ==
  Cardinality({q \in LookbackStart(j, w)..(j - 1) : SmoothedAbove(c, q, w)})

\* stays_below.sum() over is_below.iloc[i:min(len, i + smoothing_window)]
StaysBelow(c, j, w) ==
  Cardinality({q \in j..Min({Len(c), j + w - 1}) : SmoothedBelow(c, q, w)})

\* variant: half of the window is enough
Majority_Half(count, w) == 2 * count >= w

\* count >= smoothing_window * 0.6
Majority(count, w) == 10 * count >= 6 * w

InitDaily ==
  /\ ZoneIdle
  /\ AnalyzerIdle
  /\ SignalsIdle
  /\ FilterIdle
  /\ detector = "daily"
  /\ series \in {s \in SeqsUpTo(DailyRows, MaxDailyDates) : NaNPrefix(s)}
  /\ smoothing_window \in 1..MaxSmoothing
  /\ pos = 0
  /\ crossing_signal = <<>>
  /\ dpc = "idle"

\* detect_price_crossing_down_daily up to its loop (lines 16-35)
DailyBegin ==
  /\ detector = "daily" /\ dpc = "idle"
  /\ crossing_signal' = ZeroSignal(series)
  /\ dpc' = IF Len(CleanRows(series)) < smoothing_window * 2
            THEN "done" ELSE "loop"
  /\ UNCHANGED <<detector, series, smoothing_window, pos, zonevars, anavars, sigvars, filtvars>>

\* one iteration of its loop over clean_data (lines 37-53)
DailyStep ==
  /\ detector = "daily" /\ dpc = "loop"
  /\ pos < Len(CleanRows(series))
  /\ LET c == CleanRows(series)
         j == pos + 1
         w == smoothing_window
     IN crossing_signal' =
          IF ~Transition(c, j, w) THEN crossing_signal
          ELSE IF ~Majority(WasAbove(c, j, w), w) THEN crossing_signal
          ELSE IF Majority(StaysBelow(c, j, w), w)
               THEN [crossing_signal EXCEPT ![DailyCleanIndex(series)[j]] = 1]
               ELSE crossing_signal
  /\ pos' = pos + 1
  /\ UNCHANGED <<detector, series, smoothing_window, dpc, zonevars, anavars, sigvars, filtvars>>

\* return crossing_signal (line 55)
DailyReturn ==
  /\ detector = "daily" /\ dpc = "loop"
  /\ pos = Len(CleanRows(series))
  /\ dpc' = "done"
  /\ UNCHANGED <<detector, series, smoothing_window, pos, crossing_signal,
                 zonevars, anavars, sigvars, filtvars>>

NextDaily == DailyBegin \/ DailyStep \/ DailyReturn

SpecDaily == InitDaily /\ [][NextDaily]_vars

DailyDone == detector = "daily" /\ dpc = "done"

\* the dates of the series on which Close and MA are both defined,
\* numbered in date order
Dated == CleanRows(series)

\* the number of the date at position q of the series
DateNo(q) == Cardinality({x \in 1..q : DailyValid(series[x])})

\* date j is a transition with a 60% majority above over the s dates
\* before it and a 60% majority below over the s dates from it onward
Qualifies(j) ==
  LET w == smoothing_window
  IN /\ j > 1
     /\ SmoothedAbove(Dated, j - 1, w)
     /\ SmoothedBelow(Dated, j, w)
     /\ 10 * Cardinality({q \in 1..(j - 1) :
              q >= j - w /\ SmoothedAbove(Dated, q, w)}) >= 6 * w
     /\ 10 * Cardinality({q \in j..Len(Dated) :
              q <= j + w - 1 /\ SmoothedBelow(Dated, q, w)}) >= 6 * w

\* C19 as stated: a date is flagged exactly when the smoothed price was
\* >= MA at the date before and < MA at it, at least 60% of the s dates
\* preceding it were above and at least 60% of the s dates from it onward
\* are below; every other date is unflagged.
C19_FlagsExactlyQualifying ==
  DailyDone =>
    \A q \in 1..Len(series) :
      crossing_signal[q] = 1 <=> (DailyValid(series[q]) /\ Qualifies(DateNo(q)))

\* C19 amended: the same, provided the series has at least 2*s dates with
\* a defined Close and MA; a shorter series has no flagged date.
C19_FlagsQualifyingOfLongSeries ==
  DailyDone =>
    \A q \in 1..Len(series) :
      crossing_signal[q] = 1
        <=> ( /\ Len(Dated) >= 2 * smoothing_window
              /\ DailyValid(series[q])
              /\ Qualifies(DateNo(q)) )

\* with s = 2, one transition is flagged and another one is not
C19_Witness ==
  /\ DailyDone
  /\ smoothing_window = 2
  /\ \E a, b \in 1..Len(series) :
       /\ DailyValid(series[a]) /\ DailyValid(series[b])
       /\ crossing_signal[a] = 1
       /\ crossing_signal[b] = 0
       /\ Transition(Dated, DateNo(b), 2)

\* the smoothed price is below the MA on exactly one date of the series
Whipsaw ==
  Cardinality({j \in 1..Len(Dated) :
                 SmoothedBelow(Dated, j, smoothing_window)}) = 1

NothingFlagged == \A q \in 1..Len(series) : crossing_signal[q] = 0

Tickers == {"", "ACWI", "INVALID_TICKER"}

\* the tickers for which the data provider has prices
Listed == {"ACWI"}

StartDates == {"1990-01-01", "2020-01-01"}

EndDates == {"2025-10-21", "2021-01-01"}

MonthCloses == {1, 2, 3}

\* what yf.download can deliver: for a listed ticker any run of months
\* with one or two daily closes each, or nothing; nothing for the others
Downloads(t) ==
  IF t \in Listed
  THEN SeqsUpTo(UNION {[1..l -> MonthCloses] : l \in 1..2}, MaxMonths)
  ELSE {<<>>}

\* daily_data.resample('M').last(): the last close of every month
ResampleToMonthly(daily) == [m \in 1..Len(daily) |-> Last(daily[m])]

InitAnalyzer ==
  /\ ZoneIdle
  /\ DetectorIdle
  /\ AnalyzerIdle
  /\ SignalsIdle
  /\ FilterIdle

\* BollingerBandsAnalyzer(ticker, start_date, end_date): stores its
\* arguments and sets monthly_data to None (lines 8-14)
Construct(t, from, to) ==
  /\ ~constructed
  /\ raised = "none"
  /\ constructed' = TRUE
  /\ ticker' = t
  /\ start_date' = from
  /\ end_date' = to
  /\ monthly_data' = <<>>
  /\ raised' = "none"
  /\ UNCHANGED <<zonevars, detvars, sigvars, filtvars>>

\* fetch_data (lines 16-20) with fetch_daily_data and resample_to_monthly:
\* an empty download raises ValueError inside the try block, which the
\* except clause turns into RuntimeError
FetchData ==
  /\ constructed
  /\ raised = "none"
  /\ \E daily \in Downloads(ticker) :
       IF daily = <<>>
       THEN /\ raised' = "RuntimeError"
            /\ UNCHANGED monthly_data
       ELSE /\ monthly_data' = ResampleToMonthly(daily)
            /\ UNCHANGED raised
  /\ UNCHANGED <<constructed, ticker, start_date, end_date, zonevars, detvars,
                 sigvars, filtvars>>

NextAnalyzer ==
  \/ \E t \in Tickers, from \in StartDates, to \in EndDates : Construct(t, from, to)
  \/ FetchData

SpecAnalyzer == InitAnalyzer /\ [][NextAnalyzer]_vars

\* C13: constructing the analyzer with an empty ticker raises ValueError
\* in the constructor, so that no analyzer object comes to exist.
C13_EmptyTickerRaises ==
  [][(~constructed /\ ticker' = "")
       => (raised' = "ValueError" /\ ~constructed')]_vars

\* ---- the trend filter of the dashboard (examples/app.py, update_chart) ----

\* the daily rows; the daily branch of the filter reads neither Close nor MA
FilterData(per, len) ==
  IF per = "daily" THEN {[d \in 1..len |-> [Close |-> 105, ma |-> 100]]}
  ELSE {s \in [1..len -> [Close : {95, 105}, ma : {NaN} \cup MAValues]] : NaNPrefix(s)}

\* the displayed dates: the daily dates, or one candle per calendar period
NumDisplayed(per, len) ==
  IF per = "daily" THEN len ELSE (len + DaysPerPeriod - 1) \div DaysPerPeriod

\* display_data.index[price_crossing == 1]
CrossingDatesOf(pcs) ==
  LET keep(q) == pcs[q] = 1
  IN SelectSeq([q \in 1..Len(pcs) |-> q], keep)

\* period_start and original_cross_date of candle q, as daily dates
PeriodStart(q) == (q - 1) * DaysPerPeriod + 1
PeriodEnd(q, len) == Min({q * DaysPerPeriod, len})

\* the first day of candle q on which Close went from >= MA to < MA
\* (lines 686-694), or None
CrossingDay(rows, q) ==
  LET days == {e \in (PeriodStart(q) + 1)..PeriodEnd(q, Len(rows)) :
                 /\ FloatGreaterEq(rows[e - 1].Close, rows[e - 1].ma)
                 /\ IsBelow(rows[e])}
  IN IF days = {} THEN None ELSE Min(days)

\* ma_condition[mask] for the mask start <= date <= end
MaskedCondition(cond, from, to) == SubSeq(cond, from, Min({to, Len(cond)}))

\* the daily branch for one crossing date (lines 616-626)
DailyAccepts(cross_date, cond, lookahead, threshold) ==
  LET v == MaskedCondition(cond, cross_date, cross_date + lookahead)
      conditions_met == CheckMaConditionsForPeriod(v, threshold)
      total_days == Len(v)
  IN (total_days > 0 /\ conditions_met) \/ total_days = 0

\* the periodic branch for one crossing candle (lines 670-717)
PeriodAccepts(q, rows, cond, threshold) ==
  LET crossing_day == CrossingDay(rows, q)
      from == IF crossing_day # None THEN crossing_day ELSE PeriodStart(q)
  IN CheckMaConditionsForPeriod(
       MaskedCondition(cond, from, PeriodEnd(q, Len(rows))), threshold)

InitFilter ==
  /\ max_reentry_signals = 1
  /\ reenter_after_orange = FALSE
  /\ warmup = 0
  /\ period \in {"daily", "monthly"}
  /\ ma_condition_threshold \in {0, 50, 100}
  /\ period_cond = <<>>
  /\ n \in 0..NumFilterDates
  /\ Locals
  /\ run = 1
  /\ tape = <<>>
  /\ first_zones = <<>>
  /\ DetectorIdle
  /\ AnalyzerIdle
  /\ enabled_signals = {}
  /\ bb_distance_threshold = 10
  /\ any_reentry_signal = <<>>
  /\ reentry_signals = <<>>
  /\ spc = "idle"
  /\ data \in FilterData(period, n)
  /\ daily_lookahead \in 0..MaxLookahead
  /\ period = "monthly" => daily_lookahead = 0
  /\ combined_ma_condition \in [1..n -> BOOLEAN]
  /\ price_crossing \in [1..NumDisplayed(period, n) -> {0, 1}]
  /\ valid_crossings = <<>>
  /\ fpos = 0
  /\ fpc = "idle"

\* the guards of the two filters (lines 611 and 662): without a crossing,
\* or in daily mode with no lookahead, price_crossing is left as it is
FilterBegin ==
  /\ fpc = "idle"
  /\ IF /\ Len(CrossingDatesOf(price_crossing)) > 0
        /\ period = "daily" => daily_lookahead > 0
     THEN /\ valid_crossings' = ZeroSignal(price_crossing)
          /\ fpc' = "loop"
     ELSE /\ valid_crossings' = price_crossing
          /\ fpc' = "done"
  /\ UNCHANGED <<data, daily_lookahead, combined_ma_condition, price_crossing,
                 fpos, zonevars, detvars, anavars, enabled_signals,
                 bb_distance_threshold, any_reentry_signal, reentry_signals, spc>>

\* one iteration of the loop over the crossing dates (615-626, 669-717)
FilterStep ==
  /\ fpc = "loop"
  /\ fpos < Len(CrossingDatesOf(price_crossing))
  /\ LET cross_date == CrossingDatesOf(price_crossing)[fpos + 1]
         accepted ==
           IF period = "daily"
           THEN DailyAccepts(cross_date, combined_ma_condition,
                             daily_lookahead, ma_condition_threshold)
           ELSE PeriodAccepts(cross_date, data, combined_ma_condition,
                              ma_condition_threshold)
     IN valid_crossings' = IF accepted
                           THEN [valid_crossings EXCEPT ![cross_date] = 1]
                           ELSE valid_crossings
  /\ fpos' = fpos + 1
  /\ UNCHANGED <<data, daily_lookahead, combined_ma_condition, price_crossing,
                 fpc, zonevars, detvars, anavars, enabled_signals,
                 bb_distance_threshold, any_reentry_signal, reentry_signals, spc>>

\* price_crossing = valid_crossings (lines 628, 720)
FilterReturn ==
  /\ fpc = "loop"
  /\ fpos = Len(CrossingDatesOf(price_crossing))
  /\ fpc' = "done"
  /\ UNCHANGED <<data, daily_lookahead, combined_ma_condition, price_crossing,
                 valid_crossings, fpos, zonevars, detvars, anavars,
                 enabled_signals, bb_distance_threshold, any_reentry_signal,
                 reentry_signals, spc>>

NextFilter == FilterBegin \/ FilterStep \/ FilterReturn

SpecFilter == InitFilter /\ [][NextFilter]_vars

\* the daily dates the filter checks for the candidate at displayed date q:
\* in daily mode the dates from q to q + daily_lookahead (none when the
\* lookahead is 0), in periodic mode the dates of the candle from the day
\* the price crossed (from the period's start if there is no such day)
CheckedWindow(q) ==
  IF period = "daily"
  THEN IF daily_lookahead > 0
       THEN {e \in 1..Len(data) : q <= e /\ e <= q + daily_lookahead}
       ELSE {}
  ELSE LET day == CrossingDay(data, q)
       IN {e \in 1..Len(data) :
             /\ PeriodOf(e) = q - 1
             /\ day # None => e >= day}

\* C21: in daily and in periodic mode a candidate crossing survives the
\* trend filter exactly when its checked window is empty or the share of
\* the window's daily dates on which the combined trend condition holds is
\* at least ma_condition_threshold; otherwise it is removed.
C21_SurvivesTrendFilter ==
  fpc = "done" =>
    \A q \in 1..Len(price_crossing) :
      valid_crossings[q] = 1
        <=> /\ price_crossing[q] = 1
            /\ \/ CheckedWindow(q) = {}
               \/ 100 * Cardinality({e \in CheckedWindow(q) : combined_ma_condition[e]})
                    >= ma_condition_threshold * Cardinality(CheckedWindow(q))

\* in periodic mode one candidate is removed and one survives on a window
\* that starts at its crossing day
C21_Witness ==
  /\ fpc = "done"
  /\ period = "monthly"
  /\ ma_condition_threshold = 50
  /\ \E a, b \in 1..Len(price_crossing) :
       /\ price_crossing[a] = 1 /\ valid_crossings[a] = 0
       /\ price_crossing[b] = 1 /\ valid_crossings[b] = 1
       /\ CrossingDay(data, b) # None
       /\ \E e \in DatesOfPeriod(PeriodStart(b), Len(data)) : ~combined_ma_condition[e]

\* ---- re-entry signals (indicators/signals.py) ----

\* the candles: a small bearish one, a doji without range, a small and a
\* large bullish one, and a hammer
Bars ==
  {[Open |-> 13, Close |-> 12, High |-> 13, Low |-> 12],
   [Open |-> 12, Close |-> 12, High |-> 12, Low |-> 12],
   [Open |-> 12, Close |-> 13, High |-> 13, Low |-> 12],
   [Open |-> 12, Close |-> 15, High |-> 15, Low |-> 12],
   [Open |-> 14, Close |-> 13, High |-> 14, Low |-> 10]}

\* one daily row: a candle with the long MA and its bands at the date; the
\* bands are the MA -/+ 5, or all three are undefined during the warm-up
SignalRows ==
  {[Open |-> b.Open, Close |-> b.Close, High |-> b.High, Low |-> b.Low,
    ma |-> m, upper |-> IF m = NaN THEN NaN ELSE m + 5,
    lower |-> IF m = NaN THEN NaN ELSE m - 5] :
     b \in Bars, m \in {NaN, 14}}

\* bb_distance_threshold in percent (the dashboard steps by 5)
DistanceValues == {10, 40, 60}

Patterns == {"engulfing", "hammer", "morning_star"}

Abs(x) == IF x < 0 THEN -x ELSE x

\* variant: the loop starts at the first row, whose predecessor iloc[-1]
\* is the last row
BullishEngulfing_FromFirst(rows, j) ==
  LET prev == IF j > 1 THEN rows[j - 1] ELSE rows[Len(rows)]
      curr == rows[j]
  IN /\ prev.Close < prev.Open
     /\ curr.Close > curr.Open
     /\ curr.Open <= prev.Close /\ curr.Close >= prev.Open

\* detect_bullish_engulfing at row j (lines 15-26)
BullishEngulfing(rows, j) ==
  /\ j > 1
  /\ LET prev == rows[j - 1]
         curr == rows[j]
     IN /\ prev.Close < prev.Open
        /\ curr.Close > curr.Open
        /\ curr.Open <= prev.Close /\ curr.Close >= prev.Open

\* detect_hammer at row j (lines 35-54)
Hammer(rows, j) ==
  LET r == rows[j]
      body == Abs(r.Close - r.Open)
      total_range == r.High - r.Low
      lower_shadow == Min({r.Open, r.Close}) - r.Low
      upper_shadow == r.High - Max(r.Open, r.Close)
      is_hammer == lower_shadow > 2 * body /\ upper_shadow < body
      is_inverted == upper_shadow > 2 * body /\ lower_shadow < body
  IN total_range # 0 /\ (is_hammer \/ is_inverted)

\* detect_morning_star at row j (lines 63-81); second_body < 0.3 * first_body
\* is compared as 10 * second_body < 3 * first_body
MorningStar(rows, j) ==
  /\ j > 2
  /\ LET first == rows[j - 2]
         second == rows[j - 1]
         third == rows[j]
         second_body == Abs(second.Close - second.Open)
         first_body == Abs(first.Close - first.Open)
     IN /\ first.Close < first.Open
        /\ 10 * second_body < 3 * first_body
        /\ third.Close > third.Open
        /\ 2 * third.Close > first.Open + first.Close

\* the series of one pattern: all False unless the pattern is enabled
PatternFires(name, rows, j, enabled) ==
  /\ name \in enabled
  /\ CASE name = "engulfing" -> BullishEngulfing(rows, j)
       [] name = "hammer" -> Hammer(rows, j)
       [] name = "morning_star" -> MorningStar(rows, j)

\* variant: the distance must be below the threshold
NearLowerBB_Strict(r, threshold) ==
  LET bb_width == r.upper - r.lower
  IN /\ r.Close # NaN /\ r.upper # NaN /\ r.lower # NaN
     /\ bb_width > 0
     /\ (r.Close - r.lower) * 100 < threshold * bb_width

\* near_lower_bb (lines 110-112): (Close - lower) / bb_width * 100 compared
\* with the threshold; a zero width divides to -inf, +inf or NaN
NearLowerBB(r, threshold) ==
  LET bb_width == r.upper - r.lower
  IN /\ r.Close # NaN /\ r.upper # NaN /\ r.lower # NaN
     /\ IF bb_width > 0 THEN (r.Close - r.lower) * 100 <= threshold * bb_width
        ELSE IF bb_width < 0 THEN (r.Close - r.lower) * 100 >= threshold * bb_width
        ELSE r.Close < r.lower

InitSignals ==
  /\ ZoneIdle
  /\ DetectorIdle
  /\ AnalyzerIdle
  /\ FilterIdle
  /\ data \in {s \in SeqsUpTo(SignalRows, MaxBars) : NaNPrefix(s)}
  /\ enabled_signals \in SUBSET Patterns
  /\ bb_distance_threshold \in DistanceValues
  /\ any_reentry_signal = <<>>
  /\ reentry_signals = <<>>
  /\ spc = "idle"

\* the three pattern series and their OR (lines 101-106)
DetectPatterns ==
  /\ spc = "idle"
  /\ any_reentry_signal' =
       [j \in 1..Len(data) |->
          \/ PatternFires("engulfing", data, j, enabled_signals)
          \/ PatternFires("hammer", data, j, enabled_signals)
          \/ PatternFires("morning_star", data, j, enabled_signals)]
  /\ spc' = "patterns"
  /\ UNCHANGED <<data, enabled_signals, bb_distance_threshold, reentry_signals,
                 zonevars, detvars, anavars, filtvars>>

\* the conditions and the final signal (lines 109-117)
GateSignals ==
  /\ spc = "patterns"
  /\ reentry_signals' =
       [j \in 1..Len(data) |->
          /\ any_reentry_signal[j]
          /\ IsBelow(data[j])
          /\ NearLowerBB(data[j], bb_distance_threshold)]
  /\ spc' = "done"
  /\ UNCHANGED <<data, enabled_signals, bb_distance_threshold, any_reentry_signal,
                 zonevars, detvars, anavars, filtvars>>

NextSignals == DetectPatterns \/ GateSignals

SpecSignals == InitSignals /\ [][NextSignals]_vars

\* C22 as stated: for every enabled subset of the three patterns the
\* combined any-reversal-pattern signal is false at the first date.
C22_FirstDateFalse ==
  (spc # "idle" /\ Len(data) >= 1) => ~any_reentry_signal[1]

\* C22 amended: for every enabled subset that leaves hammer out, the
\* combined signal is false at the first date; with hammer enabled it can
\* be true there.
C22_FirstDateFalseWithoutHammer ==
  (spc # "idle" /\ Len(data) >= 1 /\ "hammer" \notin enabled_signals)
    => ~any_reentry_signal[1]

\* hammer is disabled, the first candle has the hammer shape and is not
\* signalled, the second date is
C22_Witness ==
  /\ spc # "idle"
  /\ Len(data) >= 2
  /\ "hammer" \notin enabled_signals
  /\ Hammer(data, 1)
  /\ ~any_reentry_signal[1]
  /\ any_reentry_signal[2]

\* C23: the re-entry signal is true at a date exactly when an enabled
\* pattern fires there, Close < long MA, and Close - lower band is at most
\* bb_distance_threshold percent of upper - lower; so it is never true
\* where Close >= MA.
C23_ReentryExactly ==
  spc = "done" =>
    \A j \in 1..Len(data) :
      LET r == data[j]
      IN /\ reentry_signals[j]
              <=> /\ \E name \in enabled_signals : PatternFires(name, data, j, Patterns)
                  /\ r.ma # NaN /\ r.Close < r.ma
                  /\ r.lower # NaN /\ r.upper # NaN
                  /\ 100 * (r.Close - r.lower) <= bb_distance_threshold * (r.upper - r.lower)
         /\ (r.ma # NaN /\ r.Close >= r.ma) => ~reentry_signals[j]

\* one date is signalled; on another a pattern fires near the lower band
\* but at or above the MA, and it is not signalled
C23_Witness ==
  /\ spc = "done"
  /\ \E a, b \in 1..Len(data) :
       /\ reentry_signals[a]
       /\ any_reentry_signal[b]
       /\ NearLowerBB(data[b], bb_distance_threshold)
       /\ data[b].Close >= data[b].ma
       /\ ~reentry_signals[b]

\* ---- the trend gate in periodic mode ----

\* C24: in monthly/quarterly mode the gate at a daily date is true exactly
\* when the share of all daily dates of that date's calendar period on
\* which combined_ma_condition holds is >= ma_condition_threshold; so the
\* gate is the same on every date of the period and depends on dates of
\* the period after the current one.  The gate decides the entry of an
\* iteration that is out of a zone, below the MA, with a pending crossing.
C24_PeriodGate ==
  [][ (IsIteration /\ period = "monthly")
      => /\ Len(period_cond') = Cardinality(DatesOfPeriod(i', n))
         /\ period_cond'[OffsetInPeriod(i')] = CombinedMaCondition(row')
         /\ OffsetInPeriod(i') # 1 => period_cond' = period_cond
         /\ (~in_zone /\ Pending # {} /\ IsBelow(row'))
              => (Entered <=> 100 * CountTrue(period_cond')
                                >= ma_condition_threshold * Len(period_cond')) ]_vars

\* a zone is entered on the first date of a period although the trend
\* condition fails on that date: the next date of the period carries it
C24_Witness ==
  /\ period = "monthly"
  /\ ma_condition_threshold = 50
  /\ i >= 1 /\ OffsetInPeriod(i) = 1
  /\ Len(period_cond) = 2
  /\ ~CombinedMaCondition(row)
  /\ period_cond[2]
  /\ Len(log) > 0 /\ Last(log).ev = "STARTED" /\ Last(log).at = i

\* ---- the records of the returned zones ----

\* C25: every zone in the returned list has start <= end, the orange zones
\* whose end is the date before the recovery date included.
C25_StartNotAfterEnd ==
  \A k \in ZoneIndex : zones[k].start <= zones[k].end

\* an orange zone that was entered on the date before the price recovered:
\* it starts and ends on that date
C25_Witness ==
  /\ pc = "done"
  /\ \E k \in ZoneIndex :
       /\ ~zones[k].completed
       /\ zones[k].start = zones[k].end
       /\ zones[k].end < n

\* C26 as stated: every date in a zone's reentry_signals lies within the
\* zone's [start, end], for green and orange zones alike.
C26_SignalsWithinZone ==
  \A k \in ZoneIndex :
    \A q \in 1..Len(zones[k].reentry_signals) :
      /\ zones[k].start <= zones[k].reentry_signals[q]
      /\ zones[k].reentry_signals[q] <= zones[k].end

\* C26 amended: every date in a zone's reentry_signals lies within the
\* zone's [start, end], except that the last signal of an orange zone may
\* be the date after its end (a re-entry signal on the recovery date).
C26_SignalsWithinZoneOrAtRecovery ==
  \A k \in ZoneIndex :
    LET z == zones[k]
    IN \A q \in 1..Len(z.reentry_signals) :
         /\ z.start <= z.reentry_signals[q]
         /\ \/ z.reentry_signals[q] <= z.end
            \/ /\ ~z.completed
               /\ q = Len(z.reentry_signals)
               /\ z.reentry_signals[q] = z.end + 1

\* an orange zone with one signal inside it and one on its recovery date,
\* and a green zone
C26_Witness ==
  /\ pc = "done"
  /\ max_reentry_signals = 2
  /\ \E k \in ZoneIndex :
       /\ ~zones[k].completed
       /\ Len(zones[k].reentry_signals) = 1
       /\ zones[k].reentry_signals[1] = zones[k].end + 1
  /\ \E k \in ZoneIndex : zones[k].completed

\* ---- zones per crossing event ----

\* the zones of list zs whose exit signal is crossing c
ZonesOf(zs, c) == {k \in 1..Len(zs) : zs[k].exit_signal = c}

\* the lines of the log about the zones of crossing c
LinesOf(c) == {k \in 1..Len(log) : log[k].exit_signal = c}

\* C27: a crossing event becomes the exit signal of a second zone only if
\* reenter_after_orange is False and its previous zone was closed orange
\* by MA recovery; so in the returned list every crossing is the exit
\* signal of at most one green zone, and of at most one zone of any kind
\* when reenter_after_orange is True.
C27_ReuseOnlyAfterOrange ==
  [][ /\ (IsIteration /\ Entered /\ LinesOf(log'[Len(log) + 1].exit_signal) # {})
         => LET c == log'[Len(log) + 1].exit_signal
                last == CHOOSE k \in LinesOf(c) : \A m \in LinesOf(c) : m <= k
            IN /\ ~reenter_after_orange
               /\ log[last].ev = "STAY_OUT"
               /\ log[last - 1].ev = "ORANGE"
               /\ \A m \in LinesOf(c) : log[m].ev # "GREEN"
      /\ (pc = "loop" /\ pc' = "done")
         => \A c \in 1..n :
              /\ Cardinality({k \in ZonesOf(zones', c) : zones'[k].completed}) <= 1
              /\ reenter_after_orange => Cardinality(ZonesOf(zones', c)) <= 1 ]_vars

\* under the stay-out policy one crossing is the exit signal of an orange
\* zone and then of a green zone
C27_Witness ==
  /\ pc = "done"
  /\ ~reenter_after_orange
  /\ \E a, b \in ZoneIndex :
       /\ zones[a].exit_signal = zones[b].exit_signal
       /\ ~zones[a].completed /\ zones[a].end < n
       /\ zones[b].completed
       /\ zones[a].end < zones[b].end

\* ---- entries and returned zones ----

\* the entry transitions so far that used crossing c as exit signal
EntriesOf(c) == {k \in 1..Len(log) : log[k].ev = "STARTED" /\ log[k].exit_signal = c}

\* C28: every entry transition produces exactly one zone of the returned
\* list (closed green, closed orange, or closed at the end of the series):
\* while the loop runs the entries are the closed zones plus the open one,
\* and at the return every crossing has as many zones as it had entries,
\* so that no open zone is lost or emitted twice.
C28_OneZonePerEntry ==
  \A c \in 1..n :
    /\ pc = "loop"
         => Cardinality(EntriesOf(c))
              = Cardinality(ZonesOf(green_zones, c)) + Cardinality(ZonesOf(orange_zones, c))
                + (IF in_zone /\ zone_exit_signal = c THEN 1 ELSE 0)
    /\ pc = "done"
         => /\ Cardinality(EntriesOf(c)) = Cardinality(ZonesOf(zones, c))
            /\ Len(zones) = Cardinality({k \in 1..Len(log) : log[k].ev = "STARTED"})

\* three entries and three returned zones: one closed green, one closed
\* orange by recovery, one still open at the end
C28_Witness ==
  /\ pc = "done"
  /\ in_zone
  /\ Len(zones) = 3
  /\ Cardinality({k \in 1..Len(log) : log[k].ev = "STARTED"}) = 3
  /\ green_zones # <<>>
  /\ \E k \in 1..Len(orange_zones) : orange_zones[k].end < n

\* ---- the close at the end of the series ----

\* C29: for max_reentry_signals >= 1 an open zone always holds fewer than
\* max_reentry_signals re-entry signals, so the close at the end of the
\* series is always orange (completed = False) and its green branch is
\* never taken.
C29_EndOfSeriesOrange ==
  /\ in_zone => Len(zone_reentry_signals) < max_reentry_signals
  /\ \A k \in 1..Len(log) : log[k].ev # "GREEN_OPEN_AT_END"
  /\ (pc = "done" /\ in_zone)
       => /\ orange_zones # <<>>
          /\ Last(orange_zones) = Zone(zone_exit_signal, zone_start,
                                       zone_reentry_signals, n, FALSE)

\* with two signals needed, the series ends in a zone that has collected
\* one, after a green zone was completed
C29_Witness ==
  /\ pc = "done"
  /\ in_zone
  /\ max_reentry_signals = 2
  /\ Len(zone_reentry_signals) = 1
  /\ green_zones # <<>>
  /\ Last(log).ev = "ORANGE_OPEN_AT_END"

\* ---- the order of the returned list ----

\* C30 as stated: the end dates are non-decreasing along the returned
\* list, for either reenter_after_orange policy.
C30_EndsNonDecreasing ==
  \A k \in ZoneIndex : k < Len(zones) => zones[k].end <= zones[k + 1].end

\* C30 amended: the end dates are non-decreasing along the returned list
\* when reenter_after_orange is True; when it is False the only pairs of
\* neighbours out of closing order are a green zone followed by an orange
\* zone of the same exit signal, which was closed before it.
C30_EndsNonDecreasingButReuse ==
  \A k \in ZoneIndex :
    k < Len(zones)
      => \/ zones[k].end <= zones[k + 1].end
         \/ /\ ~reenter_after_orange
            /\ zones[k].completed /\ ~zones[k + 1].completed
            /\ zones[k].exit_signal = zones[k + 1].exit_signal
            /\ zones[k].start = zones[k + 1].start

\* under the stay-out policy a green zone precedes the orange zone of the
\* same exit signal that was closed earlier
C30_Witness ==
  /\ pc = "done"
  /\ ~reenter_after_orange
  /\ \E k \in ZoneIndex :
       /\ k < Len(zones)
       /\ zones[k].completed /\ ~zones[k + 1].completed
       /\ zones[k].exit_signal = zones[k + 1].exit_signal
       /\ zones[k].end > zones[k + 1].end

====
